---- MODULE Spec2Model ----
(***************************************************************************)
(* CHIP-8 interpreter (src/src/chip_8.py) and its websocket server         *)
(* (src/main.py): the machine state, the opcode handlers, the ROM upload,  *)
(* the per-connection input loop and the per-connection emulator runner.   *)
(***************************************************************************)
EXTENDS Integers, Sequences, FiniteSets, TLC

(***************************************************************************)
(* Program constants                                                       *)
(***************************************************************************)
MEM_SIZE == 4096
STACK_SIZE == 16
NUM_REGS == 16
NUM_KEYS == 16
SCREEN_W == 64
SCREEN_H == 32
FONT_START == 80
ROM_START == 512
KEY_UP == 0
KEY_DOWN == 1
DEFAULT_TICKS_PER_SEC == 700
NOT_PAUSED == -1

font_data ==
  << 240, 144, 144, 144, 240,
      32,  96,  32,  32, 112,
     240,  16, 240, 128, 240,
     240,  16, 240,  16, 240,
     144, 144, 240,  16,  16,
     240, 128, 240,  16, 240,
     240, 128, 240, 144, 240,
     240,  16,  32,  64,  64,
     240, 144, 240, 144, 240,
     240, 144, 240,  16, 240,
     240, 144, 240, 144, 144,
     224, 144, 224, 144, 224,
     240, 128, 128, 128, 240,
     224, 144, 144, 144, 224,
     240, 128, 240, 128, 240,
     240, 128, 240, 128, 128 >>

(***************************************************************************)
(* Python integer operators on non-negative operands                       *)
(***************************************************************************)
RECURSIVE BitAnd(_, _)
BitAnd(a, b) ==
  IF a = 0 \/ b = 0 THEN 0
  ELSE ((a % 2) * (b % 2)) + 2 * BitAnd(a \div 2, b \div 2)

RECURSIVE BitOr(_, _)
BitOr(a, b) ==
  IF a = 0 THEN b
  ELSE IF b = 0 THEN a
  ELSE (IF (a % 2) + (b % 2) > 0 THEN 1 ELSE 0) + 2 * BitOr(a \div 2, b \div 2)

RECURSIVE BitXor(_, _)
BitXor(a, b) ==
  IF a = 0 THEN b
  ELSE IF b = 0 THEN a
  ELSE (((a % 2) + (b % 2)) % 2) + 2 * BitXor(a \div 2, b \div 2)

RECURSIVE Pow2(_)
Pow2(k) == IF k = 0 THEN 1 ELSE 2 * Pow2(k - 1)

Shr(a, k) == a \div Pow2(k)
Shl(a, k) == a * Pow2(k)

(***************************************************************************)
(* bytearray(n): a zero-filled array of n bytes.  The model keeps the      *)
(* cells that are not zero (a function from their indices to their         *)
(* values); a cell outside that domain reads 0.  The length is checked     *)
(* where the code indexes (InMem, the bounds test of the draw loop).       *)
(***************************************************************************)
bytearray == [a \in {} |-> 0]

Peek(bytes, a) == IF a \in DOMAIN bytes THEN bytes[a] ELSE 0

Poke(bytes, a, v) ==
  IF v = 0
  THEN [k \in (DOMAIN bytes) \ {a} |-> bytes[k]]
  ELSE [k \in (DOMAIN bytes) \cup {a} |-> IF k = a THEN v ELSE bytes[k]]

\* bytes[start : start + len(data)] = data
PokeSlice(bytes, start, data) ==
  LET span == start..(start + Len(data) - 1)
      at(k) == IF k \in span THEN data[k - start + 1] ELSE Peek(bytes, k)
  IN  [k \in {j \in (DOMAIN bytes) \cup span : at(j) # 0} |-> at(k)]

(***************************************************************************)
(* Chip8.__init__                                                          *)
(***************************************************************************)
Chip8 ==
  [ mem    |-> PokeSlice(bytearray, FONT_START, font_data),
    stack  |-> [s \in 0..(STACK_SIZE - 1) |-> 0],
    sp     |-> 0,
    dt     |-> 0,
    st     |-> 0,
    pc     |-> ROM_START,
    I      |-> 0,
    regs   |-> [r \in 0..(NUM_REGS - 1) |-> 0],
    screen |-> bytearray,
    keypad |-> [k \in 0..(NUM_KEYS - 1) |-> FALSE],
    quirk_display_wait |-> TRUE,
    quirk_clipping     |-> TRUE,
    quirk_shifting     |-> FALSE,
    quirk_load_store   |-> TRUE,
    waiting_for_draw_sync |-> FALSE ]

(***************************************************************************)
(* Outcome of a handler: the machine as the handler left it, and the       *)
(* exception that ended it ("none" when it returned).  A Python exception  *)
(* keeps every assignment made before it was raised.                       *)
(***************************************************************************)
Returns(m)      == [m |-> m, exc |-> "none", vx |-> NOT_PAUSED, ret |-> TRUE]
Raises(m, e)    == [m |-> m, exc |-> e, vx |-> NOT_PAUSED, ret |-> TRUE]
RaisesNeedKey(m, x) == [m |-> m, exc |-> "NeedKey", vx |-> x, ret |-> TRUE]

InMem(a) == a >= 0 /\ a < MEM_SIZE

SetReg(m, x, v) == [m EXCEPT !.regs[x] = v]

(***************************************************************************)
(* Opcode handlers                                                         *)
(***************************************************************************)
op_disp_clear(m) ==
  Returns([m EXCEPT !.screen = bytearray])

op_ret_from_subroutine(m) ==
  IF m.sp = 0 THEN Raises(m, "RuntimeError")
  ELSE Returns([m EXCEPT !.sp = m.sp - 1, !.pc = m.stack[m.sp - 1]])

\* op_jump_to_addr that lands one instruction behind its target
op_jump_to_addr_past_target(m, nnn) ==
  Returns([m EXCEPT !.pc = (nnn + 2) % 4096])

op_jump_to_addr(m, nnn) == Returns([m EXCEPT !.pc = nnn % 4096])

\* op_call_addr without the overflow test
op_call_addr_unguarded(m, nnn) ==
  Returns([m EXCEPT !.stack[m.sp] = m.pc,
                    !.sp = m.sp + 1,
                    !.pc = nnn % 4096])

op_call_addr(m, nnn) ==
  IF m.sp >= STACK_SIZE THEN Raises(m, "RuntimeError")
  ELSE Returns([m EXCEPT !.stack[m.sp] = m.pc,
                         !.sp = m.sp + 1,
                         !.pc = nnn % 4096])

Skip(m) == [m EXCEPT !.pc = (m.pc + 2) % 65536]

op_se_vx_byte(m, x, nn) ==
  Returns(IF m.regs[x] = nn THEN Skip(m) ELSE m)

op_sne_vx_byte(m, x, nn) ==
  Returns(IF m.regs[x] # nn THEN Skip(m) ELSE m)

op_se_vx_vy(m, x, y) ==
  Returns(IF m.regs[x] = m.regs[y] THEN Skip(m) ELSE m)

op_ld_vx_byte(m, x, nn) == Returns(SetReg(m, x, nn % 256))

op_add_vx_byte(m, x, nn) == Returns(SetReg(m, x, (m.regs[x] + nn) % 256))

op_ld_vx_vy(m, x, y) == Returns(SetReg(m, x, m.regs[y]))

op_or_vx_vy(m, x, y) ==
  Returns(SetReg(SetReg(m, x, BitOr(m.regs[x], m.regs[y])), 15, 0))

op_and_vx_vy(m, x, y) ==
  Returns(SetReg(SetReg(m, x, BitAnd(m.regs[x], m.regs[y])), 15, 0))

op_xor_vx_vy(m, x, y) ==
  Returns(SetReg(SetReg(m, x, BitXor(m.regs[x], m.regs[y])), 15, 0))

\* op_add_vx_vy keeping the 9-bit sum in Vx
op_add_vx_vy_unmasked(m, x, y) ==
  LET total == m.regs[x] + m.regs[y]
  IN  Returns(SetReg(SetReg(m, x, total), 15,
                     IF total > 255 THEN 1 ELSE 0))

\* op_add_vx_vy with the carry test `total >= 0xFF`
op_add_vx_vy_carry_at_255(m, x, y) ==
  LET total == m.regs[x] + m.regs[y]
  IN  Returns(SetReg(SetReg(m, x, total % 256), 15,
                     IF total >= 255 THEN 1 ELSE 0))

op_add_vx_vy(m, x, y) ==
  LET total == m.regs[x] + m.regs[y]
  IN  Returns(SetReg(SetReg(m, x, total % 256), 15,
                     IF total > 255 THEN 1 ELSE 0))

\* op_sub_vx_vy with the flag `vx_val >= vy_val`
op_sub_vx_vy_flag_on_equal(m, x, y) ==
  LET vx_val == m.regs[x]
      vy_val == m.regs[y]
      flag_value == IF vx_val >= vy_val THEN 1 ELSE 0
      result == (vx_val - vy_val) % 256
  IN  Returns(SetReg(SetReg(m, x, result), 15, flag_value))

op_sub_vx_vy(m, x, y) ==
  LET vx_val == m.regs[x]
      vy_val == m.regs[y]
      flag_value == IF vx_val > vy_val THEN 1 ELSE 0
      result == (vx_val - vy_val) % 256
  IN  Returns(SetReg(SetReg(m, x, result), 15, flag_value))

\* op_shr_vx with the highest bit of Vx as the flag
op_shr_vx_flag_msb(m, x) ==
  LET val == m.regs[x]
      msb == Shr(val, 7) % 2
  IN  Returns(SetReg(SetReg(m, x, Shr(val, 1) % 256), 15, msb))

op_shr_vx(m, x) ==
  LET val == m.regs[x]
      lsb == val % 2
  IN  Returns(SetReg(SetReg(m, x, Shr(val, 1) % 256), 15, lsb))

\* op_subn_vx_vy with the flag `vy_val > vx_val`
op_subn_vx_vy_no_flag_on_equal(m, x, y) ==
  LET vx_val == m.regs[x]
      vy_val == m.regs[y]
      flag_value == IF vy_val > vx_val THEN 1 ELSE 0
      result == (vy_val - vx_val) % 256
  IN  Returns(SetReg(SetReg(m, x, result), 15, flag_value))

op_subn_vx_vy(m, x, y) ==
  LET vx_val == m.regs[x]
      vy_val == m.regs[y]
      flag_value == IF vy_val >= vx_val THEN 1 ELSE 0
      result == (vy_val - vx_val) % 256
  IN  Returns(SetReg(SetReg(m, x, result), 15, flag_value))

\* op_shl_vx writing VF before Vx
op_shl_vx_flag_first(m, x) ==
  LET val == m.regs[x]
      msb == Shr(val, 7) % 2
  IN  Returns(SetReg(SetReg(m, 15, msb), x, Shl(val, 1) % 256))

op_shl_vx(m, x) ==
  LET val == m.regs[x]
      msb == Shr(val, 7) % 2
  IN  Returns(SetReg(SetReg(m, x, Shl(val, 1) % 256), 15, msb))

op_sne_vx_vy(m, x, y) ==
  Returns(IF m.regs[x] # m.regs[y] THEN Skip(m) ELSE m)

op_ld_i_addr(m, nnn) == Returns([m EXCEPT !.I = nnn % 4096])

op_jump_v0_addr(m, nnn) == Returns([m EXCEPT !.pc = (nnn + m.regs[0]) % 4096])

op_rnd_vx(m, x, nn, rnd) == Returns(SetReg(m, x, BitAnd(rnd, nn)))


(***************************************************************************)
(* Dxyn: the row loop and the bit loop of op_drw_vx_vy_n                   *)
(***************************************************************************)
\* DrawBits with `screen[idx] ^= sprite_byte >> (7 - b)`: the `& 1` forgotten.
RECURSIVE DrawBits_unmasked(_, _, _, _, _)
DrawBits_unmasked(m, sprite_byte, base_x, final_y, b) ==
  IF b >= 8 THEN m
  ELSE
    LET shifted == Shr(sprite_byte, 7 - b)
        pixel_col_x == base_x + b
        clipped == m.quirk_clipping /\ (pixel_col_x < 0 \/ pixel_col_x >= SCREEN_W)
        final_x == IF m.quirk_clipping THEN pixel_col_x ELSE pixel_col_x % SCREEN_W
        idx == final_y * SCREEN_W + final_x
        drawn ==
          IF shifted % 2 = 1 /\ ~clipped /\ idx >= 0 /\ idx < SCREEN_W * SCREEN_H
          THEN [m EXCEPT !.regs[15] = IF Peek(m.screen, idx) = 1 THEN 1 ELSE @,
                         !.screen = Poke(@, idx, BitXor(Peek(@, idx), shifted))]
          ELSE m
    IN  DrawBits_unmasked(drawn, sprite_byte, base_x, final_y, b + 1)

RECURSIVE DrawBits(_, _, _, _, _)
DrawBits(m, sprite_byte, base_x, final_y, b) ==
  IF b >= 8 THEN m
  ELSE
    LET bit == Shr(sprite_byte, 7 - b) % 2
        pixel_col_x == base_x + b
        clipped == m.quirk_clipping /\ (pixel_col_x < 0 \/ pixel_col_x >= SCREEN_W)
        final_x == IF m.quirk_clipping THEN pixel_col_x ELSE pixel_col_x % SCREEN_W
        idx == final_y * SCREEN_W + final_x
        drawn ==
          IF bit = 1 /\ ~clipped /\ idx >= 0 /\ idx < SCREEN_W * SCREEN_H
          THEN [m EXCEPT !.regs[15] = IF Peek(m.screen, idx) = 1 THEN 1 ELSE @,
                         !.screen = Poke(@, idx, BitXor(Peek(@, idx), 1))]
          ELSE m
    IN  DrawBits(drawn, sprite_byte, base_x, final_y, b + 1)

\* DrawRows with the quirk read the wrong way round: rows past the bottom
\* edge wrap when quirk_clipping is set and are skipped when it is not.
RECURSIVE DrawRows_quirk_inverted(_, _, _, _, _, _)
DrawRows_quirk_inverted(m, i, base_x, base_y, n, r) ==
  IF r >= n THEN Returns(m)
  ELSE IF ~InMem(i + r) THEN Raises(m, "IndexError")
  ELSE
    LET sprite_byte == Peek(m.mem, i + r)
        pixel_row_y == base_y + r
        skipped == ~m.quirk_clipping /\ (pixel_row_y < 0 \/ pixel_row_y >= SCREEN_H)
        final_y == IF ~m.quirk_clipping THEN pixel_row_y ELSE pixel_row_y % SCREEN_H
        after == IF skipped THEN m
                 ELSE DrawBits(m, sprite_byte, base_x, final_y, 0)
    IN  DrawRows_quirk_inverted(after, i, base_x, base_y, n, r + 1)

RECURSIVE DrawRows(_, _, _, _, _, _)
DrawRows(m, i, base_x, base_y, n, r) ==
  IF r >= n THEN Returns(m)
  ELSE IF ~InMem(i + r) THEN Raises(m, "IndexError")
  ELSE
    LET sprite_byte == Peek(m.mem, i + r)
        pixel_row_y == base_y + r
        skipped == m.quirk_clipping /\ (pixel_row_y < 0 \/ pixel_row_y >= SCREEN_H)
        final_y == IF m.quirk_clipping THEN pixel_row_y ELSE pixel_row_y % SCREEN_H
        after == IF skipped THEN m
                 ELSE DrawBits(m, sprite_byte, base_x, final_y, 0)
    IN  DrawRows(after, i, base_x, base_y, n, r + 1)

\* op_drw_vx_vy_n with `self.regs[0xF] = 0` left out
op_drw_vx_vy_n_keeps_vf(m, x, y, n) ==
  LET base_x == m.regs[x] % SCREEN_W
      base_y == m.regs[y] % SCREEN_H
      rows == DrawRows(m, m.I, base_x, base_y, n, 0)
  IN  IF rows.exc # "none" THEN rows
      ELSE IF rows.m.quirk_display_wait
           THEN Returns([rows.m EXCEPT !.waiting_for_draw_sync = TRUE])
           ELSE rows

op_drw_vx_vy_n(m, x, y, n) ==
  LET base_x == m.regs[x] % SCREEN_W
      base_y == m.regs[y] % SCREEN_H
      rows == DrawRows(SetReg(m, 15, 0), m.I, base_x, base_y, n, 0)
  IN  IF rows.exc # "none" THEN rows
      ELSE IF rows.m.quirk_display_wait
           THEN Returns([rows.m EXCEPT !.waiting_for_draw_sync = TRUE])
           ELSE rows

(***************************************************************************)
(* Ex9E, ExA1, Fx07 .. Fx65                                                *)
(***************************************************************************)
op_skp_vx(m, x) ==
  LET key == m.regs[x]
  IN  IF key >= NUM_KEYS THEN Raises(m, "IndexError")
      ELSE Returns(IF m.keypad[key] THEN Skip(m) ELSE m)

op_sknp_vx(m, x) ==
  LET key == m.regs[x]
  IN  IF key >= NUM_KEYS THEN Raises(m, "IndexError")
      ELSE Returns(IF ~m.keypad[key] THEN Skip(m) ELSE m)

op_ld_vx_dt(m, x) == Returns(SetReg(m, x, m.dt))

\* op_ld_vx_k that takes the highest pressed key
op_ld_vx_k_highest(m, x) ==
  LET pressed == {k \in DOMAIN m.keypad : m.keypad[k]}
  IN  IF pressed # {}
      THEN Returns(SetReg(m, x, CHOOSE k \in pressed : \A j \in pressed : k >= j))
      ELSE RaisesNeedKey(m, x)

op_ld_vx_k(m, x) ==
  LET pressed == {k \in DOMAIN m.keypad : m.keypad[k]}
  IN  IF pressed # {}
      THEN Returns(SetReg(m, x, CHOOSE k \in pressed : \A j \in pressed : k <= j))
      ELSE RaisesNeedKey(m, x)

op_ld_dt_vx(m, x) == Returns([m EXCEPT !.dt = m.regs[x] % 256])

op_ld_st_vx(m, x) == Returns([m EXCEPT !.st = m.regs[x] % 256])

op_add_i_vx(m, x) == Returns([m EXCEPT !.I = (m.I + m.regs[x]) % 4096])

op_ld_f_vx(m, x) == Returns([m EXCEPT !.I = FONT_START + (m.regs[x] * 5)])

RECURSIVE StoreBytes(_, _, _)
StoreBytes(m, a, bytes) ==
  IF bytes = <<>> THEN Returns(m)
  ELSE IF ~InMem(a) THEN Raises(m, "IndexError")
  ELSE StoreBytes([m EXCEPT !.mem = Poke(@, a, Head(bytes))], a + 1, Tail(bytes))

\* op_ld_b_vx whose tens digit is not reduced modulo 10
op_ld_b_vx_tens_unreduced(m, x) ==
  LET n == m.regs[x]
      hund == (n \div 100) % 10
      tens == n \div 10
      ones == n % 10
  IN  StoreBytes(m, m.I, <<hund, tens, ones>>)

op_ld_b_vx(m, x) ==
  LET n == m.regs[x]
      hund == (n \div 100) % 10
      tens == (n \div 10) % 10
      ones == n % 10
  IN  StoreBytes(m, m.I, <<hund, tens, ones>>)

op_ld_i_vx(m, x) ==
  IF m.I + x >= MEM_SIZE THEN Raises(m, "RuntimeError")
  ELSE LET stored == StoreBytes(m, m.I, [i \in 1..(x + 1) |-> m.regs[i - 1]])
       IN  IF stored.exc # "none" THEN stored
           ELSE Returns([stored.m EXCEPT !.I = (m.I + x + 1) % 4096])

RECURSIVE LoadRegs(_, _, _)
LoadRegs(m, x, i) ==
  IF i > x THEN Returns(m)
  ELSE IF ~InMem(m.I + i) THEN Raises(m, "IndexError")
  ELSE LoadRegs(SetReg(m, i, Peek(m.mem, m.I + i)), x, i + 1)

\* op_ld_vx_i with `range(x)`: Vx itself is not read back
op_ld_vx_i_short(m, x) ==
  LET loaded == LoadRegs(m, x - 1, 0)
  IN  IF loaded.exc # "none" THEN loaded
      ELSE Returns([loaded.m EXCEPT !.I = (m.I + x + 1) % 4096])

op_ld_vx_i(m, x) ==
  LET loaded == LoadRegs(m, x, 0)
  IN  IF loaded.exc # "none" THEN loaded
      ELSE Returns([loaded.m EXCEPT !.I = (m.I + x + 1) % 4096])

(***************************************************************************)
(* fetch, match_op, step, update_timers, is_sound_on                       *)
(***************************************************************************)
fetch(m) ==
  IF ~InMem(m.pc) \/ ~InMem(m.pc + 1)
  THEN [m |-> m, exc |-> "IndexError", opcode |-> 0]
  ELSE [m |-> [m EXCEPT !.pc = (m.pc + 2) % 65536],
        exc |-> "none",
        opcode |-> BitOr(Shl(Peek(m.mem, m.pc), 8), Peek(m.mem, m.pc + 1))]

match_op(m, op, rnd) ==
  LET n1  == Shr(BitAnd(op, 61440), 12)
      n2  == Shr(BitAnd(op, 3840), 8)
      n3  == Shr(BitAnd(op, 240), 4)
      n4  == BitAnd(op, 15)
      nnn == BitAnd(op, 4095)
      nn  == BitAnd(op, 255)
  IN  CASE n1 = 0 ->
             IF op = 224 THEN op_disp_clear(m)
             ELSE IF op = 238 THEN op_ret_from_subroutine(m)
             ELSE Returns(m)
        [] n1 = 1 -> op_jump_to_addr(m, nnn)
        [] n1 = 2 -> op_call_addr(m, nnn)
        [] n1 = 3 -> op_se_vx_byte(m, n2, nn)
        [] n1 = 4 -> op_sne_vx_byte(m, n2, nn)
        [] n1 = 5 -> op_se_vx_vy(m, n2, n3)
        [] n1 = 6 -> op_ld_vx_byte(m, n2, nn)
        [] n1 = 7 -> op_add_vx_byte(m, n2, nn)
        [] n1 = 8 ->
             CASE n4 = 0  -> op_ld_vx_vy(m, n2, n3)
               [] n4 = 1  -> op_or_vx_vy(m, n2, n3)
               [] n4 = 2  -> op_and_vx_vy(m, n2, n3)
               [] n4 = 3  -> op_xor_vx_vy(m, n2, n3)
               [] n4 = 4  -> op_add_vx_vy(m, n2, n3)
               [] n4 = 5  -> op_sub_vx_vy(m, n2, n3)
               [] n4 = 6  -> op_shr_vx(m, n2)
               [] n4 = 7  -> op_subn_vx_vy(m, n2, n3)
               [] n4 = 14 -> op_shl_vx(m, n2)
               [] OTHER   -> Returns(m)
        [] n1 = 9  -> op_sne_vx_vy(m, n2, n3)
        [] n1 = 10 -> op_ld_i_addr(m, nnn)
        [] n1 = 11 -> op_jump_v0_addr(m, nnn)
        [] n1 = 12 -> op_rnd_vx(m, n2, nn, rnd)
        [] n1 = 13 -> op_drw_vx_vy_n(m, n2, n3, n4)
        [] n1 = 14 ->
             IF nn = 158 THEN op_skp_vx(m, n2)
             ELSE IF nn = 161 THEN op_sknp_vx(m, n2)
             ELSE Returns(m)
        [] n1 = 15 ->
             CASE nn = 7   -> op_ld_vx_dt(m, n2)
               [] nn = 10  -> op_ld_vx_k(m, n2)
               [] nn = 21  -> op_ld_dt_vx(m, n2)
               [] nn = 24  -> op_ld_st_vx(m, n2)
               [] nn = 30  -> op_add_i_vx(m, n2)
               [] nn = 41  -> op_ld_f_vx(m, n2)
               [] nn = 51  -> op_ld_b_vx(m, n2)
               [] nn = 85  -> op_ld_i_vx(m, n2)
               [] nn = 101 -> op_ld_vx_i(m, n2)
               [] OTHER    -> Returns(m)
        [] OTHER -> Returns(m)

\* step that takes the word 0xFFFF for a halt and returns False on it
step_halting_on_ffff(m, rnd) ==
  LET f == fetch(m)
  IN  IF f.exc # "none" THEN Raises(f.m, f.exc)
      ELSE IF f.opcode = 65535 THEN [Returns(f.m) EXCEPT !.ret = FALSE]
      ELSE match_op(f.m, f.opcode, rnd)

step(m, rnd) ==
  LET f == fetch(m)
  IN  IF f.exc # "none" THEN Raises(f.m, f.exc)
      ELSE match_op(f.m, f.opcode, rnd)

\* update_timers without the `> 0` tests
update_timers_unguarded(m) == [m EXCEPT !.dt = @ - 1, !.st = @ - 1]

update_timers(m) ==
  [m EXCEPT !.dt = IF @ > 0 THEN @ - 1 ELSE @,
            !.st = IF @ > 0 THEN @ - 1 ELSE @]

\* is_sound_on counting a timer of zero as sounding
is_sound_on_at_zero(m) == m.st >= 0

is_sound_on(m) == m.st > 0


(***************************************************************************)
(* Bounds of the model                                                     *)
(***************************************************************************)
MaxCycles == 9
MaxFrames == 2
MaxInputs == 3
MaxInputsLong == 4

Conns == {"c1", "c2"}
NoConn == "none"

(***************************************************************************)
(* ROM images offered to POST /load                                        *)
(***************************************************************************)
\* 00E0 FFFF: CLS, then the halt word of the ROM builder
RomClsHalt      == <<0, 224, 255, 255>>
\* 2200: CALL 0x200, for ever
RomCallLoop     == <<34, 0>>
\* 00EE: RET on an empty stack
RomRet          == <<0, 238>>
\* AFFF F155: I = 0xFFF, store V0..V1
RomStorePastEnd == <<175, 255, 241, 85>>
\* AFFF F165: I = 0xFFF, load V0..V1
RomLoadPastEnd  == <<175, 255, 241, 101>>
\* AFFE F033: I = 0xFFE, BCD of V0
RomBcdPastEnd   == <<175, 254, 240, 51>>
\* AFFF D002: I = 0xFFF, draw two rows
RomDrawPastEnd  == <<175, 255, 208, 2>>
\* 6010 E09E: V0 = 16, skip if key V0 pressed
RomSkipKey      == <<96, 16, 224, 158>>
\* 6010 E0A1: V0 = 16, skip if key V0 not pressed
RomSkipNoKey    == <<96, 16, 224, 161>>
\* 1FFF: jump to 0xFFF
RomJumpEnd      == <<31, 255>>
\* 60FF A050 F033 A04E F255 120A: BCD of 255 at the font, then V0..V2 stored
\* from two bytes below the font, then a jump to itself
RomFontWrite    == <<96, 255, 160, 80, 240, 51, 160, 78, 242, 85, 18, 10>>
\* F20A 7201 1200: wait for a key in V2, add 1, again
RomWaitKey      == <<242, 10, 114, 1, 18, 0>>
\* 6002 F018 1200: ST = 2, again
RomSound        == <<96, 2, 240, 24, 18, 0>>
\* 60FF 6102 8014 70FF 810E AFFF F11E F065 F129 D005 2218 1216 C20F 00EE
RomTour         == <<96, 255, 97, 2, 128, 20, 112, 255, 129, 14, 175, 255,
                     241, 30, 240, 101, 241, 41, 208, 5, 34, 24, 18, 22,
                     194, 15, 0, 238>>
RomEmpty        == <<>>
RomTooLarge     == [i \in 1..(MEM_SIZE - ROM_START + 1) |-> 0]

Roms == { RomClsHalt, RomCallLoop, RomRet, RomStorePastEnd, RomLoadPastEnd,
          RomBcdPastEnd, RomDrawPastEnd, RomSkipKey, RomSkipNoKey, RomJumpEnd,
          RomFontWrite, RomWaitKey, RomSound, RomTour, RomEmpty, RomTooLarge }

RandBytes == {0, 165, 255}
SpeedValues == {-5, 0, 1000}
KeyEventValues == {5, 9, 16}
CycleChoices == {0, 1, MaxCycles}
KeyFrames == { <<KEY_DOWN, 3>>, <<KEY_UP, 3>>, <<KEY_DOWN, 16>>, <<KEY_DOWN>> }

(***************************************************************************)
(* State                                                                   *)
(***************************************************************************)
VARIABLES
  chip,                     \* main.py: the module-global Chip8 instance
  current_ticks_per_sec,    \* main.py: module global
  conn,                     \* per connection: "none", "open", "closed"
  key_event_queue,          \* per connection: asyncio.Queue of Fx0A key values
  rloc,                     \* per connection: where its emulator_runner task is
  paused_for_key_vx_idx,    \* per runner: local of emulator_runner
  last_known_sound_state,   \* per runner: local of emulator_runner
  current_sound_state,      \* per runner: local of emulator_runner
  cycles_to_run,            \* per runner: local of emulator_runner, 0 outside the loop
  cycle_i,                  \* per runner: `i` of `for i in range(cycles_to_run)`, 0 outside the loop
  out,                      \* per connection: text messages and closes sent on the websocket
  frames,                   \* per connection: number of binary frames sent
  frame,                    \* per connection: the last binary frame sent
  running,                  \* the runner that holds the event loop between two awaits
  budget                    \* number of client events the run may still take

vars == << chip, current_ticks_per_sec, conn, key_event_queue, rloc,
           paused_for_key_vx_idx, last_known_sound_state, current_sound_state,
           cycles_to_run, cycle_i, out, frames, frame, running, budget >>

\* The locals of the runner tasks and what they have sent.
runner_vars == << rloc, paused_for_key_vx_idx, last_known_sound_state,
                  current_sound_state, cycles_to_run, cycle_i, out, frames, frame,
                  running >>

Msg(type, state, vx) == [type |-> type, state |-> state, vx |-> vx]
NeedKeyMsg(x)  == Msg("need_key", "", x)
SoundMsg(on)   == Msg("sound", IF on THEN "on" ELSE "off", NOT_PAUSED)
StatusMsg(s)   == Msg("status", s, NOT_PAUSED)
CloseMsg       == Msg("close", "1011", NOT_PAUSED)

\* The server after import: one Chip8, no connection.
Start(n) ==
  /\ chip = Chip8
  /\ current_ticks_per_sec = DEFAULT_TICKS_PER_SEC
  /\ conn = [c \in Conns |-> "none"]
  /\ key_event_queue = [c \in Conns |-> <<>>]
  /\ rloc = [c \in Conns |-> "none"]
  /\ paused_for_key_vx_idx = [c \in Conns |-> NOT_PAUSED]
  /\ last_known_sound_state = [c \in Conns |-> FALSE]
  /\ current_sound_state = [c \in Conns |-> FALSE]
  /\ cycles_to_run = [c \in Conns |-> 0]
  /\ cycle_i = [c \in Conns |-> 0]
  /\ out = [c \in Conns |-> <<>>]
  /\ frames = [c \in Conns |-> 0]
  /\ frame = [c \in Conns |-> bytearray]
  /\ running = NoConn
  /\ budget = n

Init == Start(MaxInputs)
InitLong == Start(MaxInputsLong)

(***************************************************************************)
(* POST /load                                                              *)
(***************************************************************************)
LoadInto(m, data) == [m EXCEPT !.mem = PokeSlice(@, ROM_START, data)]

\* `chip = chip_8.Chip8()` followed by the copy of the ROM, for each ROM of the
\* catalog that load_rom accepts.
FreshLoaded ==
  [data \in {d \in Roms : Len(d) >= 1 /\ Len(d) <= MEM_SIZE - ROM_START}
     |-> LoadInto(Chip8, data)]

\* load_rom with the empty-file test left out
load_rom_accepts_empty(data) ==
  /\ running = NoConn
  /\ budget > 0
  /\ budget' = budget - 1
  /\ UNCHANGED << current_ticks_per_sec, conn, key_event_queue, runner_vars >>
  /\ LET max_size == MEM_SIZE - ROM_START
     IN  IF Len(data) > max_size
         THEN chip' = chip
         ELSE chip' = LoadInto(Chip8, data)

\* load_rom copying the ROM into the machine it finds, as Chip8.load_rom does
load_rom_without_reset(data) ==
  /\ running = NoConn
  /\ budget > 0
  /\ budget' = budget - 1
  /\ UNCHANGED << current_ticks_per_sec, conn, key_event_queue, runner_vars >>
  /\ LET max_size == MEM_SIZE - ROM_START
     IN  IF Len(data) = 0 \/ Len(data) > max_size
         THEN chip' = chip
         ELSE chip' = LoadInto([chip EXCEPT !.pc = ROM_START], data)

load_rom(data) ==
  /\ running = NoConn
  /\ budget > 0
  /\ budget' = budget - 1
  /\ UNCHANGED << current_ticks_per_sec, conn, key_event_queue, runner_vars >>
  /\ LET max_size == MEM_SIZE - ROM_START
     IN  IF Len(data) = 0 \/ Len(data) > max_size
         THEN chip' = chip
         ELSE chip' = FreshLoaded[data]

(***************************************************************************)
(* websocket_endpoint: accept, the receive loop, the finally block         *)
(***************************************************************************)
RunnerLive(c) == rloc[c] \notin {"none", "done", "cancelled"}

\* Connections are named in the order they are accepted.
Earlier(c) == IF c = "c2" THEN {"c1"} ELSE {}

ws_accept(c) ==
  /\ running = NoConn
  /\ conn[c] = "none"
  /\ \A e \in Earlier(c) : conn[e] # "none"
  /\ budget > 0
  /\ budget' = budget - 1
  /\ conn' = [conn EXCEPT ![c] = "open"]
  /\ key_event_queue' = [key_event_queue EXCEPT ![c] = <<>>]
  /\ rloc' = [rloc EXCEPT ![c] = "start"]
  /\ paused_for_key_vx_idx' = [paused_for_key_vx_idx EXCEPT ![c] = NOT_PAUSED]
  /\ last_known_sound_state' = [last_known_sound_state EXCEPT ![c] = FALSE]
  /\ UNCHANGED << chip, current_ticks_per_sec, current_sound_state,
                  cycles_to_run, cycle_i, out, frames, frame, running >>

\* recv_set_speed storing the number as sent
recv_set_speed_unclamped(c, new_tps) ==
  /\ running = NoConn
  /\ conn[c] = "open"
  /\ budget > 0
  /\ budget' = budget - 1
  /\ current_ticks_per_sec' = new_tps
  /\ UNCHANGED << chip, conn, key_event_queue, runner_vars >>

recv_set_speed(c, new_tps) ==
  /\ running = NoConn
  /\ conn[c] = "open"
  /\ budget > 0
  /\ budget' = budget - 1
  /\ current_ticks_per_sec' = IF new_tps > 1 THEN new_tps ELSE 1
  /\ UNCHANGED << chip, conn, key_event_queue, runner_vars >>

recv_key_event_fx0a(c, key_value) ==
  /\ running = NoConn
  /\ conn[c] = "open"
  /\ budget > 0
  /\ budget' = budget - 1
  /\ key_event_queue' =
       IF 0 <= key_value /\ key_value <= 15
       THEN [key_event_queue EXCEPT ![c] = Append(@, key_value)]
       ELSE key_event_queue
  /\ UNCHANGED << chip, current_ticks_per_sec, conn, runner_vars >>

\* recv_bytes marking the key pressed whatever the state byte says
recv_bytes_always_down(c, key_data) ==
  /\ running = NoConn
  /\ conn[c] = "open"
  /\ budget > 0
  /\ budget' = budget - 1
  /\ chip' =
       IF Len(key_data) >= 2
       THEN LET key_index == key_data[2]
            IN  IF 0 <= key_index /\ key_index <= 15
                THEN [chip EXCEPT !.keypad[key_index] = TRUE]
                ELSE chip
       ELSE chip
  /\ UNCHANGED << current_ticks_per_sec, conn, key_event_queue, runner_vars >>

recv_bytes(c, key_data) ==
  /\ running = NoConn
  /\ conn[c] = "open"
  /\ budget > 0
  /\ budget' = budget - 1
  /\ chip' =
       IF Len(key_data) >= 2
       THEN LET key_state == key_data[1]
                key_index == key_data[2]
            IN  IF 0 <= key_index /\ key_index <= 15
                THEN [chip EXCEPT !.keypad[key_index] = (key_state = KEY_DOWN)]
                ELSE chip
       ELSE chip
  /\ UNCHANGED << current_ticks_per_sec, conn, key_event_queue, runner_vars >>

\* ws_disconnect with the finally block's runner_task.cancel() left out
ws_disconnect_without_cancel(c) ==
  /\ running = NoConn
  /\ conn[c] = "open"
  /\ budget > 0
  /\ budget' = budget - 1
  /\ conn' = [conn EXCEPT ![c] = "closed"]
  /\ UNCHANGED << chip, current_ticks_per_sec, key_event_queue, runner_vars >>

\* The client closes: the finally block cancels the runner task, which is
\* suspended at an await, and the CancelledError ends it there.
ws_disconnect(c) ==
  /\ running = NoConn
  /\ conn[c] = "open"
  /\ budget > 0
  /\ budget' = budget - 1
  /\ conn' = [conn EXCEPT ![c] = "closed"]
  /\ rloc' = [rloc EXCEPT ![c] = IF RunnerLive(c) THEN "cancelled" ELSE @]
  /\ UNCHANGED << chip, current_ticks_per_sec, key_event_queue,
                  paused_for_key_vx_idx, last_known_sound_state,
                  current_sound_state, cycles_to_run, cycle_i, out, frames, frame,
                  running >>

(***************************************************************************)
(* emulator_runner.  The task runs from one await to the next without      *)
(* giving up the event loop; `running` names the task that is between two  *)
(* awaits, and nothing else runs meanwhile.                                *)
(***************************************************************************)
Send(c, msg) == out' = [out EXCEPT ![c] = Append(@, msg)]

\* bytes(chip.screen): a copy of the framebuffer
FrameBytes(m) == m.screen

SendFrame(c, m) ==
  /\ frames' = [frames EXCEPT ![c] = @ + 1]
  /\ frame' = [frame EXCEPT ![c] = FrameBytes(m)]

\* Where the runner is after `await ws.send_json(need_key)`; `break` and
\* `continue` take it from there to the top of the loop.
AfterNeedKey == "sent_need_key"

\* Where the runner is after a hard error: `await ws.close(code=1011)`, return.
AfterCpuError(c) ==
  /\ Send(c, CloseMsg)
  /\ rloc' = [rloc EXCEPT ![c] = "done"]

\* The top of `while True`: clear the draw-sync flag, then either wait for a
\* key (an await) or enter `for i in range(cycles_to_run)`.  cycles_to_run is
\* int(accumulated_cpu_time_debt * current_ticks_per_sec), a number the wall
\* clock decides: in "cycles" the range may have another iteration
\* (runner_step) or be exhausted (runner_frame), zero iterations included.
LoopTop(c, m, paused) ==
  /\ chip' = [m EXCEPT !.waiting_for_draw_sync = FALSE]
  /\ paused_for_key_vx_idx' = [paused_for_key_vx_idx EXCEPT ![c] = paused]
  /\ IF paused # NOT_PAUSED
     THEN /\ rloc' = [rloc EXCEPT ![c] = "wait_key"]
          /\ running' = NoConn
     ELSE /\ rloc' = [rloc EXCEPT ![c] = "cycles"]
          /\ running' = c
  /\ \E n \in IF paused # NOT_PAUSED THEN {0} ELSE CycleChoices :
       cycles_to_run' = [cycles_to_run EXCEPT ![c] = n]

\* The task starts, or wakes from asyncio.sleep or from the need_key send.
runner_resume(c) ==
  /\ running = NoConn
  /\ rloc[c] \in {"start", "sleep_timeout", "sleep_frame", "sent_need_key"}
  /\ paused_for_key_vx_idx[c] # NOT_PAUSED \/ frames[c] < MaxFrames
  /\ LoopTop(c, chip, paused_for_key_vx_idx[c])
  /\ UNCHANGED << current_ticks_per_sec, conn, key_event_queue,
                  last_known_sound_state, current_sound_state, cycle_i, out,
                  frames, frame, budget >>

\* wait_for(key_event_queue.get(), timeout=0.1) returns an event.
runner_key_event(c) ==
  /\ running = NoConn
  /\ rloc[c] = "wait_key"
  /\ key_event_queue[c] # <<>>
  /\ frames[c] < MaxFrames
  /\ LET key_value == Head(key_event_queue[c])
         valid == 0 <= key_value /\ key_value <= 15
     IN  /\ key_event_queue' =
              [key_event_queue EXCEPT ![c] = IF valid THEN <<>> ELSE Tail(@)]
         /\ LoopTop(c,
                    IF valid
                    THEN SetReg(chip, paused_for_key_vx_idx[c], key_value)
                    ELSE chip,
                    IF valid THEN NOT_PAUSED ELSE paused_for_key_vx_idx[c])
  /\ UNCHANGED << current_ticks_per_sec, conn, last_known_sound_state,
                  current_sound_state, cycle_i, out, frames, frame, budget >>

\* wait_for times out: asyncio.sleep(0.01), then continue.
runner_key_timeout(c) ==
  /\ running = NoConn
  /\ rloc[c] = "wait_key"
  /\ key_event_queue[c] = <<>>
  /\ rloc' = [rloc EXCEPT ![c] = "sleep_timeout"]
  /\ UNCHANGED << chip, current_ticks_per_sec, conn, key_event_queue,
                  paused_for_key_vx_idx, last_known_sound_state,
                  current_sound_state, cycles_to_run, cycle_i, out, frames, frame,
                  running, budget >>

RndChoices(m) ==
  LET f == fetch(m)
  IN  IF f.exc = "none" /\ Shr(f.opcode, 12) = 12 THEN RandBytes ELSE {0}

\* runner_step without the display-wait `break`
runner_step_without_break(c) ==
  /\ running = c
  /\ rloc[c] = "cycles"
  /\ cycle_i[c] < cycles_to_run[c]
  /\ \E rnd \in RndChoices(chip) :
       LET res == step(chip, rnd)
       IN  /\ chip' = res.m
           /\ CASE res.exc = "NeedKey" ->
                     /\ IF paused_for_key_vx_idx[c] = NOT_PAUSED
                        THEN /\ paused_for_key_vx_idx' =
                                  [paused_for_key_vx_idx EXCEPT ![c] = res.vx]
                             /\ Send(c, NeedKeyMsg(res.vx))
                        ELSE UNCHANGED << paused_for_key_vx_idx, out >>
                     /\ rloc' = [rloc EXCEPT ![c] = AfterNeedKey]
                     /\ cycle_i' = [cycle_i EXCEPT ![c] = 0]
                     /\ cycles_to_run' = [cycles_to_run EXCEPT ![c] = 0]
                     /\ running' = NoConn
                [] res.exc \notin {"none", "NeedKey"} ->
                     /\ AfterCpuError(c)
                     /\ cycle_i' = [cycle_i EXCEPT ![c] = 0]
                     /\ cycles_to_run' = [cycles_to_run EXCEPT ![c] = 0]
                     /\ running' = NoConn
                     /\ UNCHANGED paused_for_key_vx_idx
                [] res.exc = "none" /\ ~res.ret ->
                     /\ Send(c, StatusMsg("halted"))
                     /\ rloc' = [rloc EXCEPT ![c] = "done"]
                     /\ cycle_i' = [cycle_i EXCEPT ![c] = 0]
                     /\ cycles_to_run' = [cycles_to_run EXCEPT ![c] = 0]
                     /\ running' = NoConn
                     /\ UNCHANGED paused_for_key_vx_idx
                [] OTHER ->
                     /\ cycle_i' = [cycle_i EXCEPT ![c] = @ + 1]
                     /\ UNCHANGED << rloc, running, paused_for_key_vx_idx,
                                     out, cycles_to_run >>
  /\ UNCHANGED << current_ticks_per_sec, conn, key_event_queue,
                  last_known_sound_state, current_sound_state, frames, frame,
                  budget >>

\* One iteration of `for i in range(cycles_to_run)`.
runner_step(c) ==
  /\ running = c
  /\ rloc[c] = "cycles"
  /\ cycle_i[c] < cycles_to_run[c]
  /\ \E rnd \in RndChoices(chip) :
       LET res == step(chip, rnd)
       IN  /\ chip' = res.m
           /\ CASE res.exc = "NeedKey" ->
                     /\ IF paused_for_key_vx_idx[c] = NOT_PAUSED
                        THEN /\ paused_for_key_vx_idx' =
                                  [paused_for_key_vx_idx EXCEPT ![c] = res.vx]
                             /\ Send(c, NeedKeyMsg(res.vx))
                        ELSE UNCHANGED << paused_for_key_vx_idx, out >>
                     /\ rloc' = [rloc EXCEPT ![c] = AfterNeedKey]
                     /\ cycle_i' = [cycle_i EXCEPT ![c] = 0]
                     /\ cycles_to_run' = [cycles_to_run EXCEPT ![c] = 0]
                     /\ running' = NoConn
                [] res.exc \notin {"none", "NeedKey"} ->
                     /\ AfterCpuError(c)
                     /\ cycle_i' = [cycle_i EXCEPT ![c] = 0]
                     /\ cycles_to_run' = [cycles_to_run EXCEPT ![c] = 0]
                     /\ running' = NoConn
                     /\ UNCHANGED paused_for_key_vx_idx
                [] res.exc = "none" /\ ~res.ret ->
                     /\ Send(c, StatusMsg("halted"))
                     /\ rloc' = [rloc EXCEPT ![c] = "done"]
                     /\ cycle_i' = [cycle_i EXCEPT ![c] = 0]
                     /\ cycles_to_run' = [cycles_to_run EXCEPT ![c] = 0]
                     /\ running' = NoConn
                     /\ UNCHANGED paused_for_key_vx_idx
                [] OTHER ->
                     IF res.m.quirk_display_wait /\ res.m.waiting_for_draw_sync
                     THEN /\ rloc' = [rloc EXCEPT ![c] = "frame"]
                          /\ cycle_i' = [cycle_i EXCEPT ![c] = 0]
                          /\ cycles_to_run' = [cycles_to_run EXCEPT ![c] = 0]
                          /\ UNCHANGED << running, paused_for_key_vx_idx, out >>
                     ELSE /\ cycle_i' = [cycle_i EXCEPT ![c] = @ + 1]
                          /\ UNCHANGED << rloc, running, paused_for_key_vx_idx,
                                          out, cycles_to_run >>
  /\ UNCHANGED << current_ticks_per_sec, conn, key_event_queue,
                  last_known_sound_state, current_sound_state, frames, frame,
                  budget >>

\* After the cycle loop: update_timers, the sound edge, the frame.
runner_frame(c) ==
  /\ running = c
  /\ rloc[c] = "frame" \/ (rloc[c] = "cycles" /\ cycle_i[c] = cycles_to_run[c])
  /\ chip' = update_timers(chip)
  /\ current_sound_state' =
       [current_sound_state EXCEPT ![c] = is_sound_on(chip')]
  /\ IF current_sound_state'[c] # last_known_sound_state[c]
     THEN /\ Send(c, SoundMsg(current_sound_state'[c]))
          /\ rloc' = [rloc EXCEPT ![c] = "sent_sound"]
          /\ UNCHANGED << frames, frame >>
     ELSE /\ SendFrame(c, chip')
          /\ rloc' = [rloc EXCEPT ![c] = "sleep_frame"]
          /\ UNCHANGED out
  /\ cycle_i' = [cycle_i EXCEPT ![c] = 0]
  /\ cycles_to_run' = [cycles_to_run EXCEPT ![c] = 0]
  /\ running' = NoConn
  /\ UNCHANGED << current_ticks_per_sec, conn, key_event_queue,
                  paused_for_key_vx_idx, last_known_sound_state, budget >>

\* The sound send returned: record the state, send the frame, sleep.
runner_sound_sent(c) ==
  /\ running = NoConn
  /\ rloc[c] = "sent_sound"
  /\ last_known_sound_state' =
       [last_known_sound_state EXCEPT ![c] = current_sound_state[c]]
  /\ SendFrame(c, chip)
  /\ rloc' = [rloc EXCEPT ![c] = "sleep_frame"]
  /\ UNCHANGED << chip, current_ticks_per_sec, conn, key_event_queue,
                  paused_for_key_vx_idx, current_sound_state, cycles_to_run,
                  cycle_i, out,
                  running, budget >>

emulator_runner(c) ==
  \/ runner_resume(c)
  \/ runner_key_event(c)
  \/ runner_key_timeout(c)
  \/ runner_step(c)
  \/ runner_frame(c)
  \/ runner_sound_sent(c)

websocket_endpoint(c) ==
  \/ ws_accept(c)
  \/ \E new_tps \in SpeedValues : recv_set_speed(c, new_tps)
  \/ \E key_value \in KeyEventValues : recv_key_event_fx0a(c, key_value)
  \/ \E key_data \in KeyFrames : recv_bytes(c, key_data)
  \/ ws_disconnect(c)

Next ==
  \/ \E data \in Roms : load_rom(data)
  \/ \E c \in Conns : websocket_endpoint(c)
  \/ \E c \in Conns : emulator_runner(c)

Spec == Init /\ [][Next]_vars

\* The same server, followed for one client event more.
SpecLong == InitLong /\ [][Next]_vars

(***************************************************************************)
(* Dxyn on its own, as test_drw_vx_vy_n_draw_and_collision drives it: a    *)
(* fresh Chip8 whose quirks, I, sprite bytes and V0, V1 are set by hand,   *)
(* then op_drw_vx_vy_n(0, 1, n) called directly, some number of times.     *)
(***************************************************************************)
MaxDraws == 2

\* Where the sprite rows are put: chip.I = 0x300 in the test.
SpriteAddr == 768

\* The bytes put at SpriteAddr; a sprite is n consecutive rows from I on.
SpriteBytes == << 192, 48, 0, 255, 127, 1, 128 >>
SpriteStarts == { SpriteAddr + k : k \in 0..(Len(SpriteBytes) - 1) }
Heights == { 0, 1, 2, 15 }

\* Values of V0 and V1: on the screen, at its right and bottom edges, past
\* them (the base wraps), and the largest byte.
DrawXs == { 0, 57, 60, 63, 64, 130, 255 }
DrawYs == { 0, 30, 31, 32, 62, 255 }

DrawMachine(clipping, display_wait, i, vx, vy) ==
  [ Chip8 EXCEPT !.quirk_clipping = clipping,
                 !.quirk_display_wait = display_wait,
                 !.mem = PokeSlice(@, SpriteAddr, SpriteBytes),
                 !.I = i,
                 !.regs[0] = vx,
                 !.regs[1] = vy ]

InitDraw ==
  /\ \E clipping \in BOOLEAN, display_wait \in BOOLEAN, i \in SpriteStarts,
        vx \in DrawXs, vy \in DrawYs :
       chip = DrawMachine(clipping, display_wait, i, vx, vy)
  /\ current_ticks_per_sec = DEFAULT_TICKS_PER_SEC
  /\ conn = [c \in Conns |-> "none"]
  /\ key_event_queue = [c \in Conns |-> <<>>]
  /\ rloc = [c \in Conns |-> "none"]
  /\ paused_for_key_vx_idx = [c \in Conns |-> NOT_PAUSED]
  /\ last_known_sound_state = [c \in Conns |-> FALSE]
  /\ current_sound_state = [c \in Conns |-> FALSE]
  /\ cycles_to_run = [c \in Conns |-> 0]
  /\ cycle_i = [c \in Conns |-> 0]
  /\ out = [c \in Conns |-> <<>>]
  /\ frames = [c \in Conns |-> 0]
  /\ frame = [c \in Conns |-> bytearray]
  /\ running = NoConn
  /\ budget = MaxDraws

\* chip.op_drw_vx_vy_n(0x0, 0x1, n)
call_drw(n) ==
  /\ budget > 0
  /\ budget' = budget - 1
  /\ chip' = op_drw_vx_vy_n(chip, 0, 1, n).m
  /\ UNCHANGED << current_ticks_per_sec, conn, key_event_queue, runner_vars >>

NextDraw == \E n \in Heights : call_drw(n)

SpecDraw == InitDraw /\ [][NextDraw]_vars

(***************************************************************************)
(* The instructions on their own, as the unit tests drive them: a fresh    *)
(* Chip8 whose quirk flags, I and registers are set by hand, then          *)
(* instructions dispatched by match_op, some number of times.              *)
(***************************************************************************)
MaxOps == 2

\* An opcode from its four nibbles.
Op(n1, n2, n3, n4) == n1 * 4096 + n2 * 256 + n3 * 16 + n4

\* 8014 ADD, 8125 SUB, 8566 and 8F36 SHR, 8237 SUBN, 83FE SHL, F355, F265,
\* F429
TestOps ==
  { Op(8, 0, 1, 4), Op(8, 1, 2, 5), Op(8, 5, 6, 6), Op(8, 15, 3, 6),
    Op(8, 2, 3, 7),
    Op(8, 3, 15, 14), Op(15, 3, 5, 5), Op(15, 2, 6, 5), Op(15, 4, 2, 9) }

\* Register files V0..VF set by hand: sums on both sides of 255, equal and
\* unequal pairs, both values of the lowest and of the highest bit.
RegProfiles ==
  { << 0, 1, 2, 127, 128, 129, 254, 255, 85, 170, 16, 240, 100, 155, 156, 64 >>,
    << 255, 255, 0, 0, 1, 1, 128, 128, 3, 15, 16, 17, 99, 200, 56, 1 >>,
    << 7, 7, 7, 7, 7, 7, 7, 7, 7, 7, 7, 7, 7, 7, 7, 7 >> }

\* Values of I: the start of memory, the places the tests use, and the last
\* places from which V0..VF still fit.
IValues == { 0, 768, 1024, 4080, 4090 }

OpMachine(shifting, load_store, i, profile) ==
  [ Chip8 EXCEPT !.quirk_shifting = shifting,
                 !.quirk_load_store = load_store,
                 !.I = i,
                 !.regs = [r \in 0..(NUM_REGS - 1) |-> profile[r + 1]] ]

InitOps ==
  /\ \E shifting \in BOOLEAN, load_store \in BOOLEAN, i \in IValues,
        profile \in RegProfiles :
       chip = OpMachine(shifting, load_store, i, profile)
  /\ current_ticks_per_sec = DEFAULT_TICKS_PER_SEC
  /\ conn = [c \in Conns |-> "none"]
  /\ key_event_queue = [c \in Conns |-> <<>>]
  /\ rloc = [c \in Conns |-> "none"]
  /\ paused_for_key_vx_idx = [c \in Conns |-> NOT_PAUSED]
  /\ last_known_sound_state = [c \in Conns |-> FALSE]
  /\ current_sound_state = [c \in Conns |-> FALSE]
  /\ cycles_to_run = [c \in Conns |-> 0]
  /\ cycle_i = [c \in Conns |-> 0]
  /\ out = [c \in Conns |-> <<>>]
  /\ frames = [c \in Conns |-> 0]
  /\ frame = [c \in Conns |-> bytearray]
  /\ running = NoConn
  /\ budget = MaxOps

\* chip.match_op(op): what the instruction leaves, also when it raises
call_op(op) ==
  /\ budget > 0
  /\ budget' = budget - 1
  /\ chip' = match_op(chip, op, 0).m
  /\ UNCHANGED << current_ticks_per_sec, conn, key_event_queue, runner_vars >>

NextOps == \E op \in TestOps : call_op(op)

SpecOps == InitOps /\ [][NextOps]_vars

(***************************************************************************)
(* The machine stepped on its own: Chip8.load_rom copies a ROM to 0x200 of  *)
(* a fresh Chip8, the keypad is set by hand as the unit tests set it, and   *)
(* chip.step() is called again and again for as long as it returns.         *)
(***************************************************************************)
\* 6005 6103 1200: V0 = 5, V1 = 3, again
RomLoadJump  == <<96, 5, 97, 3, 18, 0>>
\* 8018 E100 F2FF 0123 1FE0: one opcode of each family that match_op passes
\* over, then a jump to 0xFE0; the zero bytes from there to the end of
\* memory are 0NNN opcodes too
RomIgnored   == <<128, 24, 225, 0, 242, 255, 1, 35, 31, 224>>
\* 63EA A300 F333 F40A 1200: V3 = 234, its BCD at 0x300, a key into V4, again
RomBcdKey    == <<99, 234, 163, 0, 243, 51, 244, 10, 18, 0>>
\* 6005 3005 0000 4005 5010 9010 0000 E09E 0000 E0A1 0000 1200: V0 = 5, then
\* each skip instruction once, each followed by a word that a taken skip
\* jumps over
RomSkipPairs == <<96, 5, 48, 5, 0, 0, 64, 5, 80, 16, 144, 16, 0, 0,
                  224, 158, 0, 0, 224, 161, 0, 0, 18, 0>>
\* 5011 1200 1204: 5xy1 on equal registers, then a jump back, and behind it
\* a jump to itself
RomSeUnknown == <<80, 17, 18, 0, 18, 4>>

StepRoms == { RomLoadJump, RomIgnored, RomBcdKey, RomSkipPairs, RomSeUnknown,
              RomSkipKey }

\* Keypads set by hand: no key, one key, two keys, every key.
KeypadStates ==
  { [k \in 0..(NUM_KEYS - 1) |-> FALSE],
    [k \in 0..(NUM_KEYS - 1) |-> k = 5],
    [k \in 0..(NUM_KEYS - 1) |-> k \in {3, 9}],
    [k \in 0..(NUM_KEYS - 1) |-> TRUE] }

InitStep ==
  /\ \E data \in StepRoms, keys \in KeypadStates :
       chip = [LoadInto(Chip8, data) EXCEPT !.keypad = keys]
  /\ current_ticks_per_sec = DEFAULT_TICKS_PER_SEC
  /\ conn = [c \in Conns |-> "none"]
  /\ key_event_queue = [c \in Conns |-> <<>>]
  /\ rloc = [c \in Conns |-> "none"]
  /\ paused_for_key_vx_idx = [c \in Conns |-> NOT_PAUSED]
  /\ last_known_sound_state = [c \in Conns |-> FALSE]
  /\ current_sound_state = [c \in Conns |-> FALSE]
  /\ cycles_to_run = [c \in Conns |-> 0]
  /\ cycle_i = [c \in Conns |-> 0]
  /\ out = [c \in Conns |-> <<>>]
  /\ frames = [c \in Conns |-> 0]
  /\ frame = [c \in Conns |-> bytearray]
  /\ running = NoConn
  /\ budget = 0

\* chip.step() that returns; a step that raises ends the run
call_step ==
  /\ \E rnd \in RndChoices(chip) :
       /\ step(chip, rnd).exc = "none"
       /\ chip' = step(chip, rnd).m
  /\ UNCHANGED << current_ticks_per_sec, conn, key_event_queue, runner_vars,
                  budget >>

NextStepping == call_step

\* The caller steps for as long as step() returns: a step that can be taken
\* is taken.
SpecStep == InitStep /\ [][NextStepping]_vars /\ WF_vars(call_step)

(***************************************************************************)
(* Properties                                                              *)
(***************************************************************************)
\* The task of connection c is in an Fx0A wait: paused_for_key_vx_idx is set.
Waiting(c) == RunnerLive(c) /\ paused_for_key_vx_idx[c] # NOT_PAUSED

\* What the next chip.step() would do.
NextStep == step(chip, 0)
NextOp == fetch(chip).opcode

IsSound(msg) == msg.type = "sound"
SoundSeq(c) == SelectSeq(out[c], IsSound)
LastReported(c) ==
  IF SoundSeq(c) = <<>> THEN FALSE
  ELSE SoundSeq(c)[Len(SoundSeq(c))].state = "on"

\* C1: in every state, so after every executed instruction, for every ROM and
\* every client input: each V[i] is in 0..255, I in 0..0xFFF, PC in
\* 0..0xFFFF, SP in 0..16, DT and ST in 0..255.
C1_RegisterWidths ==
  /\ \A i \in 0..(NUM_REGS - 1) : chip.regs[i] \in 0..255
  /\ chip.I \in 0..(MEM_SIZE - 1)
  /\ chip.pc \in 0..65535
  /\ chip.sp \in 0..STACK_SIZE
  /\ chip.dt \in 0..255
  /\ chip.st \in 0..255

\* RomTour after 60FF 6102 8014: 255 + 2 wrapped to 1 with the carry in VF.
C1_Witness ==
  /\ chip.pc = ROM_START + 6
  /\ chip.regs[0] = 1
  /\ chip.regs[1] = 2
  /\ chip.regs[15] = 1

\* C2: the bytes at 0x050..0x09F equal the canonical font in every state: no
\* opcode, Fx33 and Fx55 included, changes them.
C2_FontNeverMutated ==
  \A i \in 1..Len(font_data) : Peek(chip.mem, FONT_START + i - 1) = font_data[i]

\* C3: when a task fetches the halt sentinel 0xFFFF it sends the status
\* message 'halted' and ends, executing nothing after the sentinel.
C3_HaltSentinel ==
  [][\A c \in Conns :
       (runner_step(c) /\ fetch(chip).exc = "none" /\ NextOp = 65535)
         => /\ out'[c] = Append(out[c], StatusMsg("halted"))
            /\ rloc'[c] = "done"]_vars

\* C4: when a handler raises a hard error (CALL with SP == 16, RET with
\* SP == 0, Fx55 past 0xFFF) the task sends exactly one status message
\* 'crashed' and leaves its loop.
C4_CrashedStatus ==
  [][\A c \in Conns :
       (runner_step(c) /\ NextStep.exc = "RuntimeError")
         => /\ out'[c] = Append(out[c], StatusMsg("crashed"))
            /\ rloc'[c] = "done"]_vars

\* C5: from the need_key of an Fx0A wait until the satisfier is dequeued no
\* step of an emulator task executes an instruction (PC and all registers
\* unchanged) and the waiting task sends no frame and no second need_key.
C5_NothingRunsDuringWait ==
  [][\A c \in Conns :
       (Waiting(c) /\ ~runner_key_event(c) /\ \E d \in Conns : emulator_runner(d))
         => /\ chip'.pc = chip.pc
            /\ chip'.regs = chip.regs
            /\ frames'[c] = frames[c]
            /\ out'[c] = out[c]]_vars

\* C6: a key_event_fx0a with value K in 0..15 sent during an Fx0A wait is the
\* satisfier of that wait: the wait takes the oldest queued event and drops
\* the rest (runner_key_event), so K is the oldest queued event.
C6_KeySentDuringWaitIsTaken ==
  [][\A c \in Conns : \A K \in 0..(NUM_KEYS - 1) :
       (Waiting(c) /\ recv_key_event_fx0a(c, K))
         => Head(key_event_queue'[c]) = K]_vars

\* C7: a key_event_fx0a that arrives while no Fx0A wait is pending is ignored
\* and satisfies no later wait: when a wait starts, no satisfier is queued.
C7_StaleKeyEventIgnored ==
  [][\A c \in Conns :
       (runner_step(c) /\ NextStep.exc = "NeedKey")
         => key_event_queue'[c] = <<>>]_vars

\* C8: on each connection the sound messages alternate on, off, on, ...
\* starting with 'on', and a frame update sends a sound message iff ST > 0
\* after its timer update differs from the last state reported.
C8_SoundAlternates ==
  \A c \in Conns : \A i \in 1..Len(SoundSeq(c)) :
    SoundSeq(c)[i].state = (IF i % 2 = 1 THEN "on" ELSE "off")

\* C8, both halves: the alternation in every state and the edge rule at
\* every frame update.
C8_SoundOnEdges ==
  /\ []C8_SoundAlternates
  /\ [][\A c \in Conns :
          runner_frame(c)
            => ((Len(SoundSeq(c)') = Len(SoundSeq(c)) + 1)
                  <=> ((chip'.st > 0) # LastReported(c)))]_vars

\* A connection that was told on, then off.
C8_Witness ==
  \E c \in Conns : SoundSeq(c) = << SoundMsg(TRUE), SoundMsg(FALSE) >>

\* C9: no two emulator_runner tasks execute instructions on the same Chip8:
\* while one task steps the machine no other task is alive to step it.
C9_OneSchedulerTask ==
  [][\A c \in Conns :
       runner_step(c) => \A d \in Conns \ {c} : ~RunnerLive(d)]_vars

\* C10: from every reachable machine, the next fetch and execute ends with a
\* hard error only for CALL with SP == 16, RET with SP == 0 and Fx55.
C10_OnlyThreeHardErrors ==
  NextStep.exc \notin {"none", "NeedKey"}
    => /\ fetch(chip).exc = "none"
       /\ \/ Shr(NextOp, 12) = 2 /\ chip.sp = STACK_SIZE
          \/ NextOp = 238 /\ chip.sp = 0
          \/ Shr(NextOp, 12) = 15 /\ BitAnd(NextOp, 255) = 85

\* C11: CALL with SP == 16 and RET with SP == 0 raise and leave the stack and
\* SP as they were; otherwise CALL nnn stores the post-fetch PC at stack[SP],
\* increments SP and sets PC to nnn, RET pops, and the RET matching a CALL
\* restores the address after the CALL and the SP before it.
C11_StackDiscipline ==
  LET r == NextStep
      after_fetch == (chip.pc + 2) % 65536
  IN  fetch(chip).exc = "none" =>
        /\ Shr(NextOp, 12) = 2 =>
             IF chip.sp = STACK_SIZE
             THEN /\ r.exc = "RuntimeError"
                  /\ r.m.stack = chip.stack
                  /\ r.m.sp = chip.sp
             ELSE /\ r.exc = "none"
                  /\ r.m.stack = [chip.stack EXCEPT ![chip.sp] = after_fetch]
                  /\ r.m.sp = chip.sp + 1
                  /\ r.m.pc = NextOp % 4096
                  /\ LET back == op_ret_from_subroutine(r.m)
                     IN  /\ back.exc = "none"
                         /\ back.m.pc = after_fetch
                         /\ back.m.sp = chip.sp
        /\ NextOp = 238 =>
             IF chip.sp = 0
             THEN /\ r.exc = "RuntimeError"
                  /\ r.m.stack = chip.stack
                  /\ r.m.sp = chip.sp
             ELSE /\ r.exc = "none"
                  /\ r.m.stack = chip.stack
                  /\ r.m.sp = chip.sp - 1
                  /\ r.m.pc = chip.stack[chip.sp - 1]

\* RomTour back from its subroutine: 2218 at 0x214 pushed 0x216, 00EE popped it.
C11_Witness ==
  /\ chip.sp = 0
  /\ chip.stack[0] = ROM_START + 22
  /\ chip.pc = ROM_START + 22

\* C12: an upload of length 0 or of length above 3584 is refused and leaves
\* the machine (memory, registers, PC, timers, framebuffer, keypad) as it was.
C12_RejectedUploadChangesNothing ==
  [][\A data \in Roms :
       ((Len(data) = 0 \/ Len(data) > 3584) /\ load_rom(data))
         => chip' = chip]_vars

\* Uploads were made, no client ever connected, and the machine is still the
\* one built at import: every upload so far was refused.
C12_Witness ==
  /\ budget < MaxInputs
  /\ \A c \in Conns : conn[c] = "none"
  /\ chip = Chip8

\* C13: after an upload of length L in 1..3584, whatever the machine was:
\* PC == 0x200; SP, I, DT, ST and every V are 0; framebuffer and keypad are
\* clear; the font is at 0x050..0x09F; mem[0x200..0x200+L) is the ROM and
\* every other byte from 0x200 up is 0.
C13_UploadResetsMachine ==
  [][\A data \in Roms :
       (Len(data) >= 1 /\ Len(data) <= 3584 /\ load_rom(data))
         => /\ chip'.pc = 512
            /\ chip'.sp = 0 /\ chip'.I = 0 /\ chip'.dt = 0 /\ chip'.st = 0
            /\ \A i \in 0..15 : chip'.regs[i] = 0
            /\ \A i \in DOMAIN chip'.screen : chip'.screen[i] = 0
            /\ \A i \in 0..15 : chip'.keypad[i] = FALSE
            /\ \A i \in 1..Len(font_data) :
                 Peek(chip'.mem, FONT_START + i - 1) = font_data[i]
            /\ \A k \in 1..Len(data) : Peek(chip'.mem, 511 + k) = data[k]
            /\ \A a \in DOMAIN chip'.mem :
                 a >= 512 + Len(data) => chip'.mem[a] = 0]_vars

\* RomSound freshly uploaded after a task ended on a hard error of the ROM
\* uploaded before it.
C13_Witness ==
  /\ chip = LoadInto(Chip8, RomSound)
  /\ \E c \in Conns : \E i \in 1..Len(out[c]) : out[c][i] = CloseMsg

\* C14: a set_speed with any integer N, zero and negative included, leaves
\* tps == max(1, N), and tps >= 1 in every state, so the division by tps in
\* the cycle computation is never by zero.
C14_SpeedClamped ==
  /\ [](current_ticks_per_sec >= 1)
  /\ [][\A c \in Conns : \A N \in SpeedValues :
          recv_set_speed(c, N)
            => current_ticks_per_sec' = (IF N >= 1 THEN N ELSE 1)]_vars

\* A set_speed with N <= 0 was received.
C14_Witness == current_ticks_per_sec = 1

\* C15: a binary frame [state_byte, key_index] with key_index in 0..15 sets
\* keypad[key_index] to (state_byte == 1) and no other entry; a frame with
\* another key_index, or shorter than 2 bytes, leaves the keypad as it was.
C15_KeypadFrame ==
  [][\A c \in Conns : \A key_data \in KeyFrames :
       recv_bytes(c, key_data)
         => IF Len(key_data) >= 2 /\ key_data[2] \in 0..15
            THEN chip'.keypad = [chip.keypad EXCEPT ![key_data[2]] = (key_data[1] = 1)]
            ELSE chip'.keypad = chip.keypad]_vars

\* Key 3 is held down.
C15_Witness == chip.keypad[3]

\* C16: once the client has disconnected and the task is cancelled, the task
\* sends no frame, sound or status message and executes no instruction, and
\* the cancellation leaves the machine as it was at the await where the task
\* was suspended.
C16_CancelledTaskIsSilent ==
  [][\A c \in Conns :
       /\ conn[c] = "closed"
            => /\ out'[c] = out[c]
               /\ frames'[c] = frames[c]
               /\ ~emulator_runner(c)
       /\ ws_disconnect(c) => chip' = chip]_vars

\* A task cancelled after it had sent a frame.
C16_Witness ==
  \E c \in Conns :
    conn[c] = "closed" /\ rloc[c] = "cancelled" /\ frames[c] >= 1

\* A bytes value the size of the framebuffer whose cells are all 0 or 1.
IsFrame(bytes) ==
  \A p \in DOMAIN bytes : p \in 0..(SCREEN_W * SCREEN_H - 1) /\ bytes[p] \in {0, 1}

\* C17: every cell of the framebuffer is 0 or 1 in every reachable state, and
\* every binary frame the scheduler sends is the 64*32 cells of the
\* framebuffer, each 0x00 or 0x01.
C17_FramebufferCells ==
  /\ IsFrame(chip.screen)
  /\ \A c \in Conns : IsFrame(frame[c])

\* A frame with lit pixels has been sent.
C17_Witness ==
  \E c \in Conns : frames[c] >= 1 /\ frame[c] # bytearray /\ frame[c] = chip.screen

\* Bit b (most significant first) of row r of the sprite at I.
SpriteBit(m, r, b) == (Peek(m.mem, m.I + r) \div Pow2(7 - b)) % 2

\* The <<row, bit>> pairs of the set bits of the n-row sprite at I.
SetBits(m, n) ==
  { rb \in (0..(n - 1)) \X (0..7) : SpriteBit(m, rb[1], rb[2]) = 1 }

\* px = bx + b and py = by + r for the base (V0 mod 64, V1 mod 32).
Px(m, rb) == (m.regs[0] % 64) + rb[2]
Py(m, rb) == (m.regs[1] % 32) + rb[1]

\* The cells a Dxyn of n rows at (V0, V1) has to toggle: with clipping a set
\* bit with px >= 64 or py >= 32 gives none, without it the bit gives
\* (px mod 64, py mod 32).
Toggled(m, n) ==
  { (Py(m, rb) % 32) * 64 + (Px(m, rb) % 64) :
      rb \in { q \in SetBits(m, n) :
                 ~(m.quirk_clipping /\ (Px(m, q) >= 64 \/ Py(m, q) >= 32)) } }

\* The lit cells of a framebuffer.
Lit(bytes) == { p \in DOMAIN bytes : bytes[p] = 1 }

\* C18 as stated: drawing the same sprite twice at the same (Vx, Vy), I and n
\* restores the framebuffer, the second draw sets VF == 1 if and only if the
\* sprite has a set bit, and a first draw on a blank framebuffer sets
\* VF == 0, for every base position and both clipping settings.
C18_DrawTwice ==
  \A n \in Heights :
    LET first == op_drw_vx_vy_n(chip, 0, 1, n).m
        second == op_drw_vx_vy_n(first, 0, 1, n).m
    IN  /\ second.screen = chip.screen
        /\ second.regs[15] = 1 <=> SetBits(chip, n) # {}
        /\ chip.screen = bytearray => first.regs[15] = 0

\* C18, amended: drawing the same sprite twice restores the framebuffer; the
\* second draw sets VF == 1 if and only if some set bit of the sprite is
\* drawn (not dropped by clipping) on a cell that was 0 before the first
\* draw; a first draw on a blank framebuffer sets VF == 0.
C18_DrawTwiceDrawnBits ==
  \A n \in Heights :
    LET first == op_drw_vx_vy_n(chip, 0, 1, n).m
        second == op_drw_vx_vy_n(first, 0, 1, n).m
    IN  /\ second.screen = chip.screen
        /\ second.regs[15] = 1
             <=> \E p \in Toggled(chip, n) : Peek(chip.screen, p) = 0
        /\ chip.screen = bytearray => first.regs[15] = 0

\* The row 0xFF was drawn twice at the right edge with clipping on: the second
\* draw collided on the one cell that is not dropped and the screen is blank.
C18_Witness ==
  /\ budget = 0
  /\ chip.quirk_clipping
  /\ chip.regs[0] = 63
  /\ chip.I = SpriteAddr + 3
  /\ chip.screen = bytearray
  /\ chip.regs[15] = 1

\* C19: Dxyn places the sprite at base (Vx mod 64, Vy mod 32); with clipping a
\* set bit with px >= 64 or py >= 32 changes no cell, without clipping it
\* toggles (px mod 64, py mod 32); every other set bit toggles exactly
\* (px, py), and nothing else changes.
C19_DrawPlacement ==
  \A n \in Heights :
    LET drawn == op_drw_vx_vy_n(chip, 0, 1, n).m.screen
        T == Toggled(chip, n)
    IN  /\ DOMAIN drawn = Lit(drawn)
        /\ Lit(drawn) = (Lit(chip.screen) \ T) \cup (T \ Lit(chip.screen))

\* V0 = V1 = 255 with clipping on: of the row 0xFF only the bit at the base
\* (63, 31) was drawn.
C19_Witness ==
  /\ budget = MaxDraws - 1
  /\ chip.quirk_clipping
  /\ chip.regs[0] = 255
  /\ chip.regs[1] = 255
  /\ Lit(chip.screen) = { 31 * 64 + 63 }

\* The next instruction is a Dxyn that runs to its end.
NextIsDraw == NextStep.exc = "none" /\ Shr(NextOp, 12) = 13

\* C20: with display_wait enabled, once a task has executed a Dxyn in an
\* iteration it executes no further instruction in that iteration: it leaves
\* the cycle batch, whatever number of cycles the batch had left, and its
\* next steps are the timer update and the frame, so it executes at most one
\* Dxyn between two consecutive frames it sends.
C20_DrawEndsTheBatch ==
  [][\A c \in Conns :
       /\ (runner_step(c) /\ NextIsDraw /\ chip.quirk_display_wait)
            => /\ rloc'[c] = "frame"
               /\ chip' = NextStep.m
       /\ (rloc[c] = "frame" /\ emulator_runner(c))
            => /\ chip' = update_timers(chip)
               /\ rloc'[c] \in {"sent_sound", "sleep_frame"}
               /\ rloc'[c] = "sleep_frame" => frames'[c] = frames[c] + 1
       /\ (rloc[c] = "sent_sound" /\ emulator_runner(c))
            => /\ chip' = chip
               /\ frames'[c] = frames[c] + 1]_vars

\* A task has left its cycle batch after a Dxyn and has not sent the frame yet.
C20_Witness ==
  \E c \in Conns :
    /\ rloc[c] = "frame"
    /\ chip.waiting_for_draw_sync
    /\ chip.screen # bytearray

\* C21: an iteration of a task that is not in the Fx0A wait and reaches the
\* 60 Hz part updates the timers exactly once before it sends the frame: DT
\* and ST each go down by 1 when above 0 and stay at 0 otherwise, nothing else
\* of the machine changes, and this is so whatever number of instructions the
\* iteration executed, zero included.  A frame is only ever sent by an
\* iteration that has made this update.
C21_TimersOncePerFrame ==
  [][\A c \in Conns :
       /\ runner_frame(c)
            => /\ paused_for_key_vx_idx[c] = NOT_PAUSED
               /\ chip'.dt = (IF chip.dt > 0 THEN chip.dt - 1 ELSE 0)
               /\ chip'.st = (IF chip.st > 0 THEN chip.st - 1 ELSE 0)
               /\ [chip' EXCEPT !.dt = 0, !.st = 0] = [chip EXCEPT !.dt = 0, !.st = 0]
       /\ (rloc[c] = "cycles" /\ cycle_i[c] = cycles_to_run[c])
            => ENABLED runner_frame(c)
       /\ rloc'[c] = "sent_sound" /\ rloc[c] # "sent_sound" => runner_frame(c)
       /\ frames'[c] # frames[c]
            => /\ frames'[c] = frames[c] + 1
               /\ runner_frame(c) \/ (rloc[c] = "sent_sound" /\ chip' = chip)]_vars

\* A frame has been sent and the sound timer, set to 2 by the ROM, is at 1.
C21_Witness ==
  \E c \in Conns : frames[c] >= 1 /\ chip.st = 1 /\ chip.dt = 0

\* The machine after the instruction with nibbles n1 x y n4.
After(n1, x, y, n4) == match_op(chip, Op(n1, x, y, n4), 0).m

\* The register indices with which the dispatch of an instruction to its
\* handler is compared: the first, one in the middle, and VF.
DispatchRegs == { 0, 7, 15 }

\* match_op sends the opcode n1 x y n4 to the handler that gives `result`.
Dispatched(n1, x, y, n4, result) ==
  match_op(chip, Op(n1, x, y, n4), 0) = result

\* C22: for all register indices x, y with x # 0xF and the bytes a in Vx and
\* b in Vy, 8xy4 leaves Vx == (a + b) & 0xFF and VF == 1 if a + b > 255,
\* else 0.
C22_AddCarry ==
  /\ \A x \in DispatchRegs : \A y \in DispatchRegs :
       Dispatched(8, x, y, 4, op_add_vx_vy(chip, x, y))
  /\ \A x \in 0..14 : \A y \in 0..15 :
       LET a == chip.regs[x]
           b == chip.regs[y]
           after == op_add_vx_vy(chip, x, y).m.regs
       IN  /\ after[x] = (a + b) % 256
           /\ after[15] = (IF a + b > 255 THEN 1 ELSE 0)

\* 8014 was executed on V0 = V1 = 255: V0 is 254 and the carry is set.
C22_Witness ==
  /\ budget = MaxOps - 1
  /\ chip.regs[0] = 254
  /\ chip.regs[1] = 255
  /\ chip.regs[15] = 1

\* C23: for the bytes a in Vx and b in Vy, x # 0xF, 8xy5 leaves
\* Vx == (a - b) mod 256 and VF == 1 if a > b, else 0; a == b gives Vx == 0
\* and VF == 0.
C23_SubFlag ==
  /\ \A x \in DispatchRegs : \A y \in DispatchRegs :
       Dispatched(8, x, y, 5, op_sub_vx_vy(chip, x, y))
  /\ \A x \in 0..14 : \A y \in 0..15 :
       LET a == chip.regs[x]
           b == chip.regs[y]
           after == op_sub_vx_vy(chip, x, y).m.regs
       IN  /\ after[x] = (a - b + 256) % 256
           /\ after[15] = (IF a > b THEN 1 ELSE 0)
           /\ a = b => after[x] = 0 /\ after[15] = 0

\* 8125 was executed on V1 = V2 = 7: V1 is 0 and VF, which held 7, is 0.
C23_Witness ==
  /\ budget = MaxOps - 1
  /\ chip.regs[1] = 0
  /\ chip.regs[2] = 7
  /\ chip.regs[3] = 7
  /\ chip.regs[15] = 0

\* C24: for the bytes a in Vx and b in Vy, x # 0xF, 8xy7 leaves
\* Vx == (b - a) mod 256 and VF == 1 if b >= a, else 0; a == b gives Vx == 0
\* and VF == 1.
C24_SubnFlag ==
  /\ \A x \in DispatchRegs : \A y \in DispatchRegs :
       Dispatched(8, x, y, 7, op_subn_vx_vy(chip, x, y))
  /\ \A x \in 0..14 : \A y \in 0..15 :
       LET a == chip.regs[x]
           b == chip.regs[y]
           after == op_subn_vx_vy(chip, x, y).m.regs
       IN  /\ after[x] = (b - a + 256) % 256
           /\ after[15] = (IF b >= a THEN 1 ELSE 0)
           /\ a = b => after[x] = 0 /\ after[15] = 1

\* 8237 was executed on V2 = V3 = 7: V2 is 0 and VF, which held 7, is 1.
C24_Witness ==
  /\ budget = MaxOps - 1
  /\ chip.regs[1] = 7
  /\ chip.regs[2] = 0
  /\ chip.regs[3] = 7
  /\ chip.regs[15] = 1

\* C25: with the shifting quirk off, for the byte v in Vx and x # 0xF, 8xy6
\* leaves Vx == v >> 1 and VF == v & 1, and 8xyE leaves Vx == (v << 1) & 0xFF
\* and VF == (v >> 7) & 1; Vy is not read (another value in it gives the same
\* result) and not changed (no register but Vx and VF changes).
C25_ShiftVx ==
  ~chip.quirk_shifting =>
    /\ \A x \in DispatchRegs : \A y \in DispatchRegs :
         /\ Dispatched(8, x, y, 6, op_shr_vx(chip, x))
         /\ Dispatched(8, x, y, 14, op_shl_vx(chip, x))
    /\ \A x \in 0..14 :
         LET v == chip.regs[x]
             shr == op_shr_vx(chip, x).m
             shl == op_shl_vx(chip, x).m
         IN  /\ shr.regs[x] = v \div 2
             /\ shr.regs[15] = v % 2
             /\ shl.regs[x] = (v * 2) % 256
             /\ shl.regs[15] = (v \div 128) % 2
             /\ \A y \in 0..14 :
                  y # x =>
                    /\ shr.regs[y] = chip.regs[y]
                    /\ shl.regs[y] = chip.regs[y]
                    /\ \A w \in {0, 255} :
                         /\ op_shr_vx(SetReg(chip, y, w), x).m = SetReg(shr, y, w)
                         /\ op_shl_vx(SetReg(chip, y, w), x).m = SetReg(shl, y, w)

\* 8566 was executed on V5 = 129 with the quirk off: V5 is 64, VF is 1 and V6
\* is still 254.
C25_Witness ==
  /\ budget = MaxOps - 1
  /\ ~chip.quirk_shifting
  /\ chip.regs[5] = 64
  /\ chip.regs[6] = 254
  /\ chip.regs[15] = 1

\* C26: with the shifting quirk flag set, 8xy6 and 8xyE take their input from
\* Vy: for the byte w in Vy and any Vx, 8xy6 leaves Vx == w >> 1 and
\* VF == w & 1, and 8xyE leaves Vx == (w << 1) & 0xFF and VF == (w >> 7) & 1.
C26_ShiftFromVy ==
  chip.quirk_shifting =>
    \A x \in 0..15 : \A y \in 0..15 :
      LET w == chip.regs[y]
          shr == After(8, x, y, 6)
          shl == After(8, x, y, 14)
      IN  /\ x # 15 => shr.regs[x] = w \div 2
          /\ shr.regs[15] = w % 2
          /\ x # 15 => shl.regs[x] = (w * 2) % 256
          /\ shl.regs[15] = (w \div 128) % 2

\* C27: for 8xy4, 8xy5, 8xy6, 8xy7 and 8xyE with x == 0xF and any y, y == 0xF
\* included, the final VF is the carry, borrow or shifted-out flag computed
\* from the operands as they were before the instruction, not the arithmetic
\* result.  The shifts are stated for the quirk off, where their operand is
\* Vx.
C27_FlagWrittenLast ==
  /\ \A y \in DispatchRegs :
       /\ Dispatched(8, 15, y, 4, op_add_vx_vy(chip, 15, y))
       /\ Dispatched(8, 15, y, 5, op_sub_vx_vy(chip, 15, y))
       /\ Dispatched(8, 15, y, 6, op_shr_vx(chip, 15))
       /\ Dispatched(8, 15, y, 7, op_subn_vx_vy(chip, 15, y))
       /\ Dispatched(8, 15, y, 14, op_shl_vx(chip, 15))
  /\ \A y \in 0..15 :
       LET a == chip.regs[15]
           b == chip.regs[y]
       IN  /\ op_add_vx_vy(chip, 15, y).m.regs[15] = (IF a + b > 255 THEN 1 ELSE 0)
           /\ op_sub_vx_vy(chip, 15, y).m.regs[15] = (IF a > b THEN 1 ELSE 0)
           /\ op_subn_vx_vy(chip, 15, y).m.regs[15] = (IF b >= a THEN 1 ELSE 0)
  /\ ~chip.quirk_shifting =>
       /\ op_shr_vx(chip, 15).m.regs[15] = chip.regs[15] % 2
       /\ op_shl_vx(chip, 15).m.regs[15] = (chip.regs[15] \div 128) % 2

\* 8F36 was executed on VF = 64, quirk off: VF holds the flag 0, not 32, and
\* the other registers are as they were set.
C27_Witness ==
  /\ budget = MaxOps - 1
  /\ ~chip.quirk_shifting
  /\ chip.regs[0] = 0 /\ chip.regs[1] = 1 /\ chip.regs[2] = 2
  /\ chip.regs[3] = 127 /\ chip.regs[5] = 129 /\ chip.regs[14] = 156
  /\ chip.regs[15] = 0

\* C28: for any x, register values v0..vx and I with I + x <= 0xFFF, Fx55 and
\* then Fx65 from the same I (I set back, the registers overwritten in
\* between) leaves V0..Vx equal to v0..vx, and with load_store_increment on
\* each of the two calls advances I by x + 1, in the 12 bits of I.
C28_StoreLoadRoundTrip ==
  /\ \A x \in DispatchRegs :
       /\ Dispatched(15, x, 5, 5, op_ld_i_vx(chip, x))
       /\ Dispatched(15, x, 6, 5, op_ld_vx_i(chip, x))
  /\ \A x \in 0..15 :
       chip.I + x <= 4095 =>
         LET stored == op_ld_i_vx(chip, x)
             between == [stored.m EXCEPT !.I = chip.I,
                                         !.regs = [r \in 0..15 |-> 255 - @[r]]]
             loaded == op_ld_vx_i(between, x)
         IN  /\ stored.exc = "none"
             /\ loaded.exc = "none"
             /\ \A r \in 0..x : loaded.m.regs[r] = chip.regs[r]
             /\ \A r \in (x + 1)..15 : loaded.m.regs[r] = 255 - chip.regs[r]
             /\ chip.quirk_load_store =>
                   /\ stored.m.I = (chip.I + x + 1) % 4096
                   /\ loaded.m.I = (chip.I + x + 1) % 4096

\* F355 was executed at I = 0x300 on V0..V3 = 0, 1, 2, 127: the four bytes are
\* in memory and I is 0x304.
C28_Witness ==
  /\ budget = MaxOps - 1
  /\ chip.quirk_load_store
  /\ chip.I = 772
  /\ Peek(chip.mem, 769) = 1
  /\ Peek(chip.mem, 770) = 2
  /\ Peek(chip.mem, 771) = 127

\* C29: Fx55 and Fx65 advance I by x + 1 only when the load_store_increment
\* flag is true; with the flag false, I is after Fx55 or Fx65 what it was
\* before.
C29_IncrementOnlyWithQuirk ==
  \A x \in 0..15 :
    chip.I + x <= 4095 =>
      LET expected == IF chip.quirk_load_store
                      THEN (chip.I + x + 1) % 4096
                      ELSE chip.I
      IN  /\ After(15, x, 5, 5).I = expected
          /\ After(15, x, 6, 5).I = expected

\* C30: for every byte in Vx, Fx29 sets I to 0x050 + (Vx & 0xF) * 5, the first
\* byte of a font sprite inside 0x050..0x09F.
C30_FontAddress ==
  \A x \in 0..15 :
    /\ After(15, x, 2, 9).I = 80 + (chip.regs[x] % 16) * 5
    /\ After(15, x, 2, 9).I \in 80..159

\* The machine with the two bytes of opcode op at its PC.
WithOp(m, op) ==
  [m EXCEPT !.mem = PokeSlice(@, m.pc, << op \div 256, op % 256 >>)]

\* C31: for every byte in Vx and every keypad, Ex9E skips iff
\* keypad[Vx & 0xF] is pressed and ExA1 skips iff it is not pressed; neither
\* raises, and neither changes anything but PC.
C31_KeySkipsMaskVx ==
  \A x \in 0..15, v \in 0..255 :
    LET m == SetReg(chip, x, v)
        pressed == chip.keypad[v % 16]
    IN  /\ op_skp_vx(m, x) = Returns(IF pressed THEN Skip(m) ELSE m)
        /\ op_sknp_vx(m, x) = Returns(IF pressed THEN m ELSE Skip(m))
        /\ x \in DispatchRegs =>
             /\ match_op(m, Op(14, x, 9, 14), 0) = op_skp_vx(m, x)
             /\ match_op(m, Op(14, x, 10, 1), 0) = op_sknp_vx(m, x)

\* The last address from which three bytes fit in memory.
LastBcdAddr == MEM_SIZE - 3

\* C32: for every byte b in Vx and every I <= 0xFFD, Fx33 writes b / 100,
\* (b / 10) % 10 and b % 10 to mem[I], mem[I + 1] and mem[I + 2], so that
\* 100 * mem[I] + 10 * mem[I + 1] + mem[I + 2] == b, and changes no other
\* byte of memory, no register and not I.
C32_BcdDigits ==
  \A x \in DispatchRegs, b \in 0..255, i \in {chip.I, LastBcdAddr} :
    i <= LastBcdAddr =>
      LET m == [SetReg(chip, x, b) EXCEPT !.I = i]
          r == op_ld_b_vx(m, x)
      IN  /\ r.exc = "none"
          /\ Peek(r.m.mem, i) = b \div 100
          /\ Peek(r.m.mem, i + 1) = (b \div 10) % 10
          /\ Peek(r.m.mem, i + 2) = b % 10
          /\ 100 * Peek(r.m.mem, i) + 10 * Peek(r.m.mem, i + 1)
               + Peek(r.m.mem, i + 2) = b
          /\ PokeSlice(r.m.mem, i, << Peek(m.mem, i), Peek(m.mem, i + 1),
                                      Peek(m.mem, i + 2) >>) = m.mem
          /\ r.m = [m EXCEPT !.mem = r.m.mem]
          /\ b = chip.regs[x] => match_op(m, Op(15, x, 3, 3), 0) = r

\* F333 was executed with V3 = 234 and I = 0x300: the digits 2, 3, 4 are at
\* 0x300..0x302 and the next instruction is the one behind F333.
C32_Witness ==
  /\ chip.pc = 518
  /\ chip.regs[3] = 234
  /\ chip.I = 768
  /\ Peek(chip.mem, 768) = 2
  /\ Peek(chip.mem, 769) = 3
  /\ Peek(chip.mem, 770) = 4

\* The instruction returned and left the machine with PC moved on by 2 / as
\* it was after the fetch.
Taken(r) == r.exc = "none" /\ r.m = Skip(chip)
Untaken(r) == r.exc = "none" /\ r.m = chip
ExactlyOneTaken(r1, r2) ==
  \/ Taken(r1) /\ Untaken(r2)
  \/ Untaken(r1) /\ Taken(r2)

\* The bytes nn of 3xnn and 4xnn that are compared with Vx.
SkipBytes == { 0, 5, 16, 234, 255 }

\* C33: on the same machine and operands exactly one instruction of each
\* skip pair is taken: 3xnn or 4xnn, 5xy0 or 9xy0, Ex9E or ExA1; the taken
\* one adds exactly 2 to the PC left by the fetch and the other one leaves
\* the machine as it was.
C33_SkipPairs ==
  \A x \in 0..15 :
    /\ \A nn \in SkipBytes :
         ExactlyOneTaken(match_op(chip, Op(3, x, 0, 0) + nn, 0),
                         match_op(chip, Op(4, x, 0, 0) + nn, 0))
    /\ \A y \in 0..15 :
         ExactlyOneTaken(match_op(chip, Op(5, x, y, 0), 0),
                         match_op(chip, Op(9, x, y, 0), 0))
    /\ ExactlyOneTaken(match_op(chip, Op(14, x, 9, 14), 0),
                       match_op(chip, Op(14, x, 10, 1), 0))

\* Opcodes that match_op passes over: 8xyN with N in 8..D or F; Exnn with nn
\* other than 9E and A1; Fxnn with nn other than 07, 0A, 15, 18, 1E, 29, 33,
\* 55, 65; 0NNN other than 00E0 and 00EE, with every low byte and with the
\* low bytes E0 and EE in every page.  x and y are taken from DispatchRegs.
IgnoredOps ==
  { Op(8, x, y, n) : x \in DispatchRegs, y \in DispatchRegs,
                     n \in (8..13) \cup {15} }
  \cup { Op(14, x, 0, 0) + nn : x \in DispatchRegs,
                                nn \in (0..255) \ {158, 161} }
  \cup { Op(15, x, 0, 0) + nn :
           x \in DispatchRegs,
           nn \in (0..255) \ {7, 10, 21, 24, 30, 41, 51, 85, 101} }
  \cup ((0..255) \ {224, 238})
  \cup { page * 256 + low : page \in 1..15, low \in {224, 238} }

SteppedWith(op, x, a, y, b) ==
  step(WithOp(SetReg(SetReg(chip, x, a), y, b), op), 0)

\* The register values tried in Vx and Vy.
CompareBytes == { 0, 5, 255 }

\* C35: 5xyN and 9xyN with N # 0 are no-ops: stepping one advances PC by
\* exactly 2 and never skips, whatever Vx and Vy hold.
C35_UnknownCompareIsNoOp ==
  InMem(chip.pc + 1) =>
    \A n1 \in {5, 9}, x \in DispatchRegs, y \in DispatchRegs, n \in 1..15,
       a \in CompareBytes, b \in CompareBytes :
      LET m == WithOp(SetReg(SetReg(chip, x, a), y, b), Op(n1, x, y, n))
      IN  SteppedWith(Op(n1, x, y, n), x, a, y, b)
            = Returns([m EXCEPT !.pc = m.pc + 2])

\* The next instruction is Fx0A.
NextIsWaitKey == NextOp \div 4096 = 15 /\ NextOp % 256 = 10

\* C36: Fx0A with at least one key pressed does not pause: it stores the
\* lowest pressed key index in Vx, raises no NeedKey, and the step returns
\* with PC at the next instruction; it raises NeedKey if and only if no key
\* is pressed.
C36_WaitKeyWithKeyPressed ==
  /\ \A x \in 0..15 :
       LET r == op_ld_vx_k(chip, x)
           v == r.m.regs[x]
           some_pressed == \E k \in 0..(NUM_KEYS - 1) : chip.keypad[k]
       IN  /\ r.exc = "NeedKey" <=> ~some_pressed
           /\ ~some_pressed => r = RaisesNeedKey(chip, x)
           /\ some_pressed =>
                /\ r = Returns(SetReg(chip, x, v))
                /\ v \in 0..(NUM_KEYS - 1)
                /\ chip.keypad[v]
                /\ \A j \in 0..(v - 1) : ~chip.keypad[j]
           /\ x \in DispatchRegs => Dispatched(15, x, 0, 10, r)
  /\ (NextIsWaitKey /\ \E k \in 0..(NUM_KEYS - 1) : chip.keypad[k]) =>
       /\ NextStep.exc = "none"
       /\ NextStep.ret
       /\ NextStep.m.pc = chip.pc + 2
       /\ NextStep.m = op_ld_vx_k(fetch(chip).m, (NextOp \div 256) % 16).m

\* F40A was stepped with the keys 3 and 9 pressed: V4 holds 3 and PC is at
\* the instruction behind F40A.
C36_Witness ==
  /\ chip.keypad[3] /\ chip.keypad[9] /\ ~chip.keypad[0]
  /\ Peek(chip.mem, 518) = 244 /\ Peek(chip.mem, 519) = 10
  /\ chip.pc = 520
  /\ chip.regs[4] = 3

\* The machine runs the ROM 60 05 61 03 12 00: it is what Chip8.load_rom
\* made of that ROM, apart from the keypad, PC, V0 and V1.
RunsLoadJump ==
  [chip EXCEPT !.keypad = Chip8.keypad, !.pc = ROM_START,
               !.regs[0] = 0, !.regs[1] = 0]
    = LoadInto(Chip8, RomLoadJump)

LoadJumpSettled == chip.regs[0] = 5 /\ chip.regs[1] = 3

\* C37: with the ROM 60 05 61 03 12 00 loaded at 0x200, PC is 0x200, 0x202 or
\* 0x204 in every state reached by stepping; from the second step on V0 == 5
\* and V1 == 3 for ever; PC is 0x200 again and again, and no step raises or
\* returns False.
C37_LoadJumpLoop ==
  /\ [](RunsLoadJump =>
          /\ chip.pc \in {512, 514, 516}
          /\ NextStep.exc = "none"
          /\ NextStep.ret
          /\ \/ LoadJumpSettled
             \/ chip.pc = 512 /\ chip.regs[0] = 0 /\ chip.regs[1] = 0
             \/ chip.pc = 514 /\ chip.regs[0] = 5 /\ chip.regs[1] = 0)
  /\ [][(RunsLoadJump /\ LoadJumpSettled) => LoadJumpSettled']_vars
  /\ [][(RunsLoadJump /\ chip.pc = 514) => LoadJumpSettled']_vars
  /\ [](RunsLoadJump => <>(chip.pc = 516 /\ LoadJumpSettled))
  /\ [](RunsLoadJump => []<>(chip.pc = 512 /\ LoadJumpSettled))

\* The loop has come round: PC is back at 0x200 with V0 = 5 and V1 = 3.
C37_Witness ==
  /\ RunsLoadJump
  /\ chip.pc = 512
  /\ LoadJumpSettled

\* The machine is as POST /load left it: nothing of the new ROM has run.
FreshlyLoaded == \E data \in DOMAIN FreshLoaded : chip = FreshLoaded[data]

\* The instruction before PC is Fx0A on register x.
LastWasWaitKey(x) ==
  /\ chip.pc >= ROM_START + 2
  /\ Peek(chip.mem, chip.pc - 2) = 240 + x
  /\ Peek(chip.mem, chip.pc - 1) = 10

\* C38: a successful upload during an Fx0A wait clears the wait.  With one
\* scheduler task alive: whenever the task takes its turn on a freshly loaded
\* machine it is out of the wait afterwards, so the new ROM runs from 0x200
\* without a key_event_fx0a; and a key_event_fx0a is written into a register
\* only when the instruction just executed by the loaded ROM is Fx0A on that
\* register.
C38_UploadClearsWait ==
  [][\A c \in Conns :
       (\A d \in Conns \ {c} : ~RunnerLive(d)) =>
         /\ (FreshlyLoaded /\ Waiting(c) /\ emulator_runner(c))
              => ~Waiting(c)'
         /\ (Waiting(c) /\ runner_key_event(c) /\ chip'.regs # chip.regs)
              => LastWasWaitKey(paused_for_key_vx_idx[c])]_vars

====
